---- MODULE Spec2Model ----
(***************************************************************************)
(* goshs file server (internal/myhttp/fileserver.go): transport bootstrap, *)
(* basic-auth gate, method dispatch, GET path resolution, upload ingestion *)
(* and the error pages, over a small POSIX-like filesystem.                *)
(*                                                                         *)
(* Strings are sequences of one-character strings, so that path.Clean,     *)
(* strings.Split, strings.Join and concatenation are computed as the code  *)
(* computes them.                                                          *)
(***************************************************************************)
EXTENDS Integers, Sequences, FiniteSets, TLC

\* ------------------------------------------------------------------ bounds
\* Requests served in one behaviour.
MaxRequests == 2
\* '/'-separated segments after the leading '/' of a request URL path.
MaxSegs == 2
\* Requests in flight at once when requests are handled concurrently.
MaxWorkers == 2

\* ----------------------------------------------------------------- strings
Slash == "/"
Dot == "."

\* F applied to the value of v (v is evaluated once).
With(v, F(_)) == CHOOSE y \in {F(x) : x \in {v}} : TRUE

\* strings.Split(s, "/"): the '/'-separated fields of s, empty fields kept.
RECURSIVE SplitFrom(_, _, _)
SplitFrom(s, i, cur) ==
    IF i > Len(s) THEN <<cur>>
    ELSE IF s[i] = Slash THEN <<cur>> \o SplitFrom(s, i + 1, <<>>)
    ELSE With(Append(cur, s[i]), LAMBDA c2 : SplitFrom(s, i + 1, c2))

Split(s) == With(s, LAMBDA v : SplitFrom(v, 1, <<>>))

\* strings.Join(parts, "/").
RECURSIVE JoinFrom(_, _)
JoinFrom(parts, i) ==
    IF i > Len(parts) THEN <<>>
    ELSE IF i = Len(parts) THEN parts[i]
    ELSE parts[i] \o <<Slash>> \o JoinFrom(parts, i + 1)

Join(parts) == With(parts, LAMBDA v : JoinFrom(v, 1))

\* path.Clean's lazybuf after a ".." element: with w characters kept, keep
\* dropping while w is above dotdot and the character just dropped is no '/'.
RECURSIVE BackUp(_, _, _)
BackUp(out, w, dotdot) ==
    IF w > dotdot /\ out[w + 1] # Slash
    THEN BackUp(out, w - 1, dotdot)
    ELSE SubSeq(out, 1, w)

\* The characters of p from position r up to the next '/'.
RECURSIVE Element(_, _)
Element(p, r) ==
    IF r > Len(p) \/ p[r] = Slash THEN <<>>
    ELSE <<p[r]>> \o Element(p, r + 1)

\* path.Clean's main loop: r is the read position, out the output written so
\* far, dotdot the position output may not back up past.
RECURSIVE CleanLoop(_, _, _, _, _)
CleanLoop(p, rooted, r, out, dotdot) ==
    IF r > Len(p) THEN out
    ELSE IF p[r] = Slash THEN CleanLoop(p, rooted, r + 1, out, dotdot)
    ELSE IF p[r] = Dot /\ (r = Len(p) \/ p[r + 1] = Slash)
    THEN CleanLoop(p, rooted, r + 1, out, dotdot)
    ELSE IF p[r] = Dot /\ p[r + 1] = Dot /\ (r + 1 = Len(p) \/ p[r + 2] = Slash)
    THEN IF Len(out) > dotdot
         THEN With(BackUp(out, Len(out) - 1, dotdot),
                   LAMBDA o2 : CleanLoop(p, rooted, r + 2, o2, dotdot))
         ELSE IF ~rooted
         THEN With((IF Len(out) > 0 THEN Append(out, Slash) ELSE out) \o <<Dot, Dot>>,
                   LAMBDA o2 : CleanLoop(p, rooted, r + 2, o2, Len(o2)))
         ELSE CleanLoop(p, rooted, r + 2, out, dotdot)
    ELSE With(Element(p, r), LAMBDA el :
         With((IF (rooted /\ Len(out) # 1) \/ (~rooted /\ Len(out) # 0)
               THEN Append(out, Slash) ELSE out) \o el,
              LAMBDA o2 : CleanLoop(p, rooted, r + Len(el), o2, dotdot)))

\* path.Clean(p).
CleanValue(p) ==
    IF Len(p) = 0 THEN <<Dot>>
    ELSE With(IF p[1] = Slash THEN CleanLoop(p, TRUE, 2, <<Slash>>, 1)
              ELSE CleanLoop(p, FALSE, 1, <<>>, 0),
              LAMBDA out : IF Len(out) = 0 THEN <<Dot>> ELSE out)

Clean(p) == With(p, LAMBDA v : CleanValue(v))

\* Whether sequence pre is a prefix of sequence s.
IsPrefix(pre, s) ==
    Len(pre) <= Len(s) /\ SubSeq(s, 1, Len(pre)) = pre

\* -------------------------------------------------------------- filesystem
\* A file name is a string; a resolved location is the sequence of names from
\* "/" down; the disk maps each existing location to its node.
NameA == <<"a">>
NameD == <<"d">>
NameR == <<"r">>
NameUpperA == <<"A">>

Dir(r, w) == [kind |-> "dir", data |-> <<>>, r |-> r, w |-> w]
File(data, r, w) == [kind |-> "file", data |-> data, r |-> r, w |-> w]

\* FileServer.Webroot: the served root, "/r".
Webroot == <<Slash>> \o NameR

\* The tree at startup: /r (the served root) holding the regular files a and
\* A and the directory d; d holds the file d, which has no permission bits
\* set.
InitDisk ==
    ( <<>> :> Dir(TRUE, TRUE)
   @@ <<NameR>> :> Dir(TRUE, TRUE)
   @@ <<NameR, NameA>> :> File(<<3, 3, 3>>, TRUE, TRUE)
   @@ <<NameR, NameUpperA>> :> File(<<4>>, TRUE, TRUE)
   @@ <<NameR, NameD>> :> Dir(TRUE, TRUE)
   @@ <<NameR, NameD, NameD>> :> File(<<3>>, FALSE, FALSE) )

Parent(loc) == IF Len(loc) = 0 THEN loc ELSE SubSeq(loc, 1, Len(loc) - 1)

\* The kernel's path walk over the components comps from location cur:
\* "ok" at an existing node, "ENOENT" with last = TRUE when only the final
\* component is missing (at = where it would be), "ENOENT" or "ENOTDIR"
\* otherwise.
RECURSIVE Walk(_, _, _, _)
Walk(d, comps, i, cur) ==
    IF i > Len(comps) THEN [err |-> "ok", at |-> cur, last |-> FALSE]
    ELSE IF d[cur].kind # "dir" THEN [err |-> "ENOTDIR", at |-> cur, last |-> FALSE]
    ELSE LET c == comps[i] IN
         IF c = <<>> \/ c = <<Dot>> THEN Walk(d, comps, i + 1, cur)
         ELSE IF c = <<Dot, Dot>>
         THEN With(Parent(cur), LAMBDA up : Walk(d, comps, i + 1, up))
         ELSE With(Append(cur, c), LAMBDA down :
                IF down \in DOMAIN d THEN Walk(d, comps, i + 1, down)
                ELSE [err |-> "ENOENT", at |-> down, last |-> (i = Len(comps))])

Resolve(d, p) == With(Split(p), LAMBDA comps : Walk(d, comps, 1, <<>>))

\* Where the path string p points, by its components alone (no symbolic
\* links are modelled, so this is where the kernel's walk goes).
RECURSIVE LexWalk(_, _, _)
LexWalk(comps, i, cur) ==
    IF i > Len(comps) THEN cur
    ELSE LET c == comps[i] IN
         IF c = <<>> \/ c = <<Dot>> THEN LexWalk(comps, i + 1, cur)
         ELSE IF c = <<Dot, Dot>>
         THEN With(Parent(cur), LAMBDA up : LexWalk(comps, i + 1, up))
         ELSE With(Append(cur, c), LAMBDA down : LexWalk(comps, i + 1, down))

Lexical(p) == With(Split(p), LAMBDA comps : LexWalk(comps, 1, <<>>))

\* The served root as a location, and confinement of a path string to it.
RootLoc == Lexical(Webroot)
Confined(p) == With(Lexical(p), LAMBDA loc : IsPrefix(RootLoc, loc))

\* os.Open(p): O_RDONLY. The result carries the errno and the node reached.
osOpen(d, p) ==
    With(Resolve(d, p), LAMBDA w :
    IF w.err # "ok" THEN [err |-> w.err, at |-> w.at]
    ELSE IF ~d[w.at].r THEN [err |-> "EACCES", at |-> w.at]
    ELSE [err |-> "ok", at |-> w.at])

\* os.IsNotExist / os.IsPermission on the errno of a failed call.
IsNotExist(err) == err = "ENOENT"
IsPermission(err) == err = "EACCES"

\* The open(2) of os.Create (O_RDWR|O_CREATE|O_TRUNC, 0666) and of
\* ioutil.WriteFile (O_WRONLY|O_CREATE|O_TRUNC): the errno, the node, and the
\* disk with the file created or truncated.
OpenTrunc(d, p, needRead) ==
    With(Resolve(d, p), LAMBDA w :
    IF w.err = "ok" THEN
        IF d[w.at].kind = "dir" THEN [err |-> "EISDIR", at |-> w.at, disk |-> d]
        ELSE IF ~d[w.at].w \/ (needRead /\ ~d[w.at].r)
        THEN [err |-> "EACCES", at |-> w.at, disk |-> d]
        ELSE [err |-> "ok", at |-> w.at,
              disk |-> [d EXCEPT ![w.at].data = <<>>]]
    ELSE IF w.err = "ENOENT" /\ w.last THEN
        IF ~d[Parent(w.at)].w THEN [err |-> "EACCES", at |-> w.at, disk |-> d]
        ELSE [err |-> "ok", at |-> w.at,
              disk |-> (w.at :> File(<<>>, TRUE, TRUE)) @@ d]
    ELSE [err |-> w.err, at |-> w.at, disk |-> d])

\* write(2) of data at offset off through a descriptor on the file at loc:
\* bytes beyond the written range are kept.
PWrite(d, loc, off, data) ==
    [d EXCEPT ![loc].data =
        [i \in 1..(IF Len(@) > off + Len(data) THEN Len(@) ELSE off + Len(data)) |->
            IF i > off /\ i <= off + Len(data) THEN data[i - off]
            ELSE IF i <= Len(@) THEN @[i] ELSE 0]]

\* ---------------------------------------------------------------- response
\* The http.ResponseWriter of one request: status is the status line on the
\* wire (0 while no header has been written), challenge and location the
\* WWW-Authenticate and Location headers sent, body the parts the client
\* received, writes the number of Write calls made so far; gone tells that
\* the connection is broken, so that every Write fails.
NoLocation == <<>>
EmptyResponse ==
    [status |-> 0, challenge |-> FALSE, challengeSet |-> FALSE,
     location |-> NoLocation, body |-> <<>>, writes |-> 0, gone |-> FALSE]

\* w.Header().Set("WWW-Authenticate", ...): a header set before the header is
\* written goes out with it.
SetChallenge(resp) ==
    IF resp.status = 0 THEN [resp EXCEPT !.challengeSet = TRUE] ELSE resp

\* w.WriteHeader(code): the first call fixes the status line and sends the
\* headers set so far; a later call changes nothing.
WriteHeader(resp, code) ==
    IF resp.status = 0
    THEN [resp EXCEPT !.status = code, !.challenge = resp.challengeSet]
    ELSE resp

\* w.Write(part): writes the header with status 200 if none was written yet;
\* the part reaches the client unless the connection is broken (the callers
\* ignore the error Write then returns).
WriteBody(resp, part) ==
    [WriteHeader(resp, 200) EXCEPT
        !.writes = @ + 1,
        !.body = IF resp.gone THEN @ ELSE Append(@, part)]

\* A part of a response body: a fixed text (an error message, a template
\* without data), a directory listing, or the bytes of a file.
Text(name) == [part |-> name, data |-> <<>>]
Parts(body) == [i \in DOMAIN body |-> body[i].part]

\* http.Error(w, msg, code).
httpError(resp, msg, code) ==
    With(WriteHeader(resp, code), LAMBDA r : WriteBody(r, Text(msg)))

\* path.Split(p): the directory part of p, up to and including its last '/'.
RECURSIVE DirPart(_)
DirPart(p) ==
    IF Len(p) = 0 \/ p[Len(p)] = Slash THEN p
    ELSE DirPart(SubSeq(p, 1, Len(p) - 1))

HasSlashSuffix(p) == Len(p) > 0 /\ p[Len(p)] = Slash

\* The Location http.Redirect computes for a URL without scheme: made
\* absolute against the request path, cleaned, a trailing '/' kept.
RedirectLocation(oldpath, url) ==
    With(IF url = <<>> \/ url[1] # Slash
         THEN DirPart(IF oldpath = <<>> THEN <<Slash>> ELSE oldpath) \o url
         ELSE url,
         LAMBDA abs :
    With(Clean(abs), LAMBDA cl :
         IF HasSlashSuffix(abs) /\ ~HasSlashSuffix(cl) THEN Append(cl, Slash) ELSE cl))

\* http.Redirect(w, req, url, code) for a POST request (no body is written).
httpRedirect(resp, oldpath, url, code) ==
    With(IF resp.status = 0
         THEN [resp EXCEPT !.location = RedirectLocation(oldpath, url)]
         ELSE resp,
         LAMBDA r : WriteHeader(r, code))

\* ---------------------------------------------------------------- requests
Favicon == <<"/", "f", "a", "v", "i", "c", "o", "n", ".", "i", "c", "o">>
FaviconName == SubSeq(Favicon, 2, Len(Favicon))

\* The URL paths requested: '/' followed by up to MaxSegs '/'-separated
\* segments drawn from "", ".", "..", "a", "d"; and /favicon.ico.
Segments == {<<>>, <<Dot>>, <<Dot, Dot>>, NameA, NameD}

RECURSIVE SegPaths(_)
SegPaths(n) ==
    IF n = 1 THEN {<<Slash>> \o sg : sg \in Segments}
    ELSE With(SegPaths(n - 1), LAMBDA shorter :
         shorter \cup {q \o <<Slash>> \o sg : q \in shorter, sg \in Segments})

UrlPaths == SegPaths(MaxSegs) \cup {Favicon}

\* What req.BasicAuth() returns: no usable header, or a user/password pair.
NoAuth == [ok |-> FALSE, username |-> "", password |-> ""]
GoodAuth == [ok |-> TRUE, username |-> "gopher", password |-> "s3cret"]
BadAuths ==
    { NoAuth,
      [ok |-> TRUE, username |-> "gopher", password |-> "guess"],
      [ok |-> TRUE, username |-> "admin", password |-> "s3cret"] }

\* The file part of an upload: the filename its header declares and its
\* bytes; ioutil.ReadAll gets readLen of them, and fails when readErr.
FileNames == {NameA, NameD, <<Dot, Dot, Slash>> \o NameA}
Payloads == {<<1, 2>>}
NoPart == [hasFile |-> FALSE, filename |-> <<>>, payload |-> <<>>,
           readErr |-> FALSE, readLen |-> 0]
FileParts ==
    { [hasFile |-> TRUE, filename |-> f, payload |-> b, readErr |-> FALSE,
       readLen |-> Len(b)] : f \in FileNames, b \in Payloads }
    \cup
    { [hasFile |-> TRUE, filename |-> f, payload |-> b, readErr |-> TRUE,
       readLen |-> Len(b) - 1] : f \in FileNames, b \in Payloads }

\* What the environment does to a GET: nothing; Readdir fails on the opened
\* directory (readdirErr); the connection breaks before the body is written
\* (writeErr); sort.Slice leaves equal elements in reverse order
\* (tiesReversed).
Environments ==
    { [readdirErr |-> FALSE, writeErr |-> FALSE, tiesReversed |-> FALSE],
      [readdirErr |-> TRUE, writeErr |-> FALSE, tiesReversed |-> FALSE],
      [readdirErr |-> FALSE, writeErr |-> TRUE, tiesReversed |-> FALSE],
      [readdirErr |-> FALSE, writeErr |-> FALSE, tiesReversed |-> TRUE] }

\* The upload of a file named favicon.ico to the served root.
FaviconPart ==
    [hasFile |-> TRUE, filename |-> FaviconName, payload |-> <<1, 2>>,
     readErr |-> FALSE, readLen |-> 2]

\* The requests with the right credentials: every method, path and part.
GoodRequests ==
    { [method |-> "GET", path |-> p, auth |-> GoodAuth, part |-> NoPart,
       readdirErr |-> e.readdirErr, writeErr |-> e.writeErr,
       tiesReversed |-> e.tiesReversed] : p \in UrlPaths, e \in Environments }
    \cup
    { [method |-> "POST", path |-> p, auth |-> GoodAuth, part |-> fp,
       readdirErr |-> FALSE, writeErr |-> FALSE, tiesReversed |-> FALSE] :
         p \in UrlPaths, fp \in FileParts \cup {NoPart} }
    \cup
    { [method |-> "POST", path |-> <<Slash>>, auth |-> GoodAuth, part |-> FaviconPart,
       readdirErr |-> FALSE, writeErr |-> FALSE, tiesReversed |-> FALSE] }
    \cup
    { [method |-> m, path |-> p, auth |-> GoodAuth, part |-> NoPart,
       readdirErr |-> FALSE, writeErr |-> FALSE, tiesReversed |-> FALSE] :
         m \in {"HEAD", "PUT", "DELETE"}, p \in UrlPaths }

\* The same requests of the first-level paths with other credentials or none.
BadRequests ==
    { [r EXCEPT !.auth = a] :
        r \in {g \in GoodRequests : g.path \in SegPaths(1) /\ ~g.part.readErr},
        a \in BadAuths }

Requests == GoodRequests \cup BadRequests

NoRequest == [method |-> "", path |-> <<>>, auth |-> NoAuth, part |-> NoPart,
              readdirErr |-> FALSE, writeErr |-> FALSE, tiesReversed |-> FALSE]

\* ---------------------------------------------------------------- handlers
\* A handler works on the context c of one request: the disk, the entries
\* the request appended to the access log, the file handles open, the
\* response, and the calls the request made (os.Open as "open", os.Create as
\* "create", ioutil.ReadAll as "read", ioutil.WriteFile as "write",
\* http.Redirect as "redirect"), each with its argument and its error.
Handle(c, kind) == [rid |-> c.rid, kind |-> kind]

\* mylog.LogRequest(remote, method, path, proto, status): one access-log
\* entry; sent is the number of Write calls the response had taken when the
\* entry was written.
LogRequest(c, rq, status) ==
    [c EXCEPT !.logged =
        Append(@, [method |-> rq.method, path |-> rq.path, status |-> status,
                   sent |-> c.resp.writes])]

\* Record a call of the request.
Called(c, op, p, err) ==
    [c EXCEPT !.calls = Append(@, [op |-> op, path |-> p, err |-> err])]

\* FileServer.handle404: access-log entry "404", then the not-found template
\* is executed onto the response.
handle404(c, rq) ==
    [LogRequest(c, rq, "404") EXCEPT !.resp = WriteBody(@, Text("page404"))]

\* FileServer.handle500: access-log entry "500", then the server-error
\* template is executed onto the response.
handle500(c, rq) ==
    [LogRequest(c, rq, "500") EXCEPT !.resp = WriteBody(@, Text("page500"))]

\* The children of the directory at loc.
Children(d, loc) ==
    { q \in DOMAIN d : Len(q) = Len(loc) + 1 /\ IsPrefix(loc, q) }

DisplayName(d, q) ==
    IF d[q].kind = "dir" THEN Append(q[Len(q)], Slash) ELSE q[Len(q)]

\* The characters of the names in byte order, and strings.ToLower.
Alphabet == <<".", "/", "A", "a", "c", "d", "f", "i", "n", "o", "r", "v">>
Code(ch) == CHOOSE i \in DOMAIN Alphabet : Alphabet[i] = ch
ToLower(str) == [i \in DOMAIN str |-> IF str[i] = "A" THEN "a" ELSE str[i]]

\* The string comparison s < t of Go: byte-wise, a proper prefix is smaller.
RECURSIVE StrLessFrom(_, _, _)
StrLessFrom(s1, s2, i) ==
    IF i > Len(s2) THEN FALSE
    ELSE IF i > Len(s1) THEN TRUE
    ELSE IF s1[i] = s2[i] THEN StrLessFrom(s1, s2, i + 1)
    ELSE Code(s1[i]) < Code(s2[i])

StrLess(s1, s2) == StrLessFrom(s1, s2, 1)

\* The less function processDir hands to sort.Slice.
ItemLess(x, y) ==
    With(ToLower(x.Name), LAMBDA lx :
    With(ToLower(y.Name), LAMBDA ly : StrLess(lx, ly)))

\* file.Readdir(-1): the children in directory order, the order in which the
\* filesystem hands out the names.
DirectoryOrder == <<NameD, NameUpperA, FaviconName, NameA, NameR>>
Readdir(d, loc) ==
    SelectSeq([i \in DOMAIN DirectoryOrder |-> Append(loc, DirectoryOrder[i])],
              LAMBDA q : q \in DOMAIN d)

\* url.PathEscape: '/' is written as %2F (no other character of the names
\* needs escaping).
RECURSIVE PathEscapeFrom(_, _)
PathEscapeFrom(str, i) ==
    IF i > Len(str) THEN <<>>
    ELSE (IF str[i] = Slash THEN <<"%", "2", "F">> ELSE <<str[i]>>)
         \o PathEscapeFrom(str, i + 1)

PathEscape(str) == With(str, LAMBDA v : PathEscapeFrom(v, 1))

\* processDir: the item of the child at location q.
Item(d, relpath, q) ==
    [Name |-> DisplayName(d, q),
     URI |-> PathEscape(Clean(relpath \o <<Slash>> \o q[Len(q)]))]

\* sort.Slice(items, less): the items in an order in which no item is less
\* than one before it. The sort is not stable: items that compare equal come
\* out in directory order, or, when reversed, in the opposite order.
RECURSIVE Insert(_, _, _, _)
Insert(sorted, x, i, reversed) ==
    IF i > Len(sorted) THEN Append(sorted, x)
    ELSE IF ItemLess(x, sorted[i]) \/ (reversed /\ ~ItemLess(sorted[i], x))
    THEN SubSeq(sorted, 1, i - 1) \o <<x>> \o SubSeq(sorted, i, Len(sorted))
    ELSE Insert(sorted, x, i + 1, reversed)

RECURSIVE sortSliceFrom(_, _, _, _)
sortSliceFrom(items, i, sorted, reversed) ==
    IF i > Len(items) THEN sorted
    ELSE With(Insert(sorted, items[i], 1, reversed), LAMBDA s2 :
            sortSliceFrom(items, i + 1, s2, reversed))

sortSlice(items, reversed) == With(items, LAMBDA v : sortSliceFrom(v, 1, <<>>, reversed))

\* FileServer.processDir: a failed Readdir is answered as not found;
\* otherwise the listing template is executed with the sorted items.
processDir(c, rq, loc) ==
    IF rq.readdirErr THEN handle404(c, rq)
    ELSE With(Readdir(c.disk, loc), LAMBDA fis :
         With([i \in DOMAIN fis |-> Item(c.disk, rq.path, fis[i])], LAMBDA items :
         With(sortSlice(items, rq.tiesReversed), LAMBDA sorted :
            [c EXCEPT !.resp =
                WriteBody(@, [part |-> "listing", data |-> sorted])])))

\* FileServer.sendFile: io.Copy of the file to the response (no Write call
\* for an empty file).
sendFile(c, loc) ==
    IF c.disk[loc].data = <<>> THEN c
    ELSE [c EXCEPT !.resp = WriteBody(@, [part |-> "file", data |-> c.disk[loc].data])]

\* Mutant of OpenPath: the URL path is appended without path.Clean.
OpenPath_NoClean(upath) == Webroot \o upath

\* The path FileServer.handler opens for the URL path upath.
OpenPath(upath) == Webroot \o Clean(upath)

\* FileServer.handler after a successful os.Open: the handle is held and
\* the access-log entry "200" is written.
handlerLog(c, rq) ==
    LogRequest([c EXCEPT !.handles = @ \cup {Handle(c, "get")}], rq, "200")

\* FileServer.handler after the entry "200": the listing or the file of the
\* node at loc; the deferred file.Close() runs last.
handlerBody(c, rq, loc) ==
    With(IF c.disk[loc].kind = "dir" THEN processDir(c, rq, loc)
         ELSE sendFile(c, loc),
         LAMBDA c4 : [c4 EXCEPT !.handles = @ \ {Handle(c, "get")}])

\* Mutant of handlerOpened: the entry "200" is written after the body.
handlerOpened_LogAfter(c, rq, loc) ==
    With([c EXCEPT !.handles = @ \cup {Handle(c, "get")}], LAMBDA c3 :
    With(IF c3.disk[loc].kind = "dir" THEN processDir(c3, rq, loc)
         ELSE sendFile(c3, loc),
         LAMBDA c4 :
            LogRequest([c4 EXCEPT !.handles = @ \ {Handle(c, "get")}], rq, "200")))

\* FileServer.handler after a successful os.Open at location loc.
handlerOpened(c, rq, loc) ==
    With(handlerLog(c, rq), LAMBDA c3 : handlerBody(c3, rq, loc))

\* FileServer.handler from os.Open on, for the path open.
handlerOpen(c, rq, open) ==
    With(osOpen(c.disk, open), LAMBDA o :
    With(Called(c, "open", open, o.err), LAMBDA c1 :
       IF IsNotExist(o.err) THEN handle404(c1, rq)
       ELSE IF IsPermission(o.err) THEN handle500(c1, rq)
       ELSE IF o.err # "ok" THEN c1
       ELSE handlerOpened(c1, rq, o.at)))

\* Mutant of handler: /favicon.ico is handled like any other path.
handler_NoFavicon(c, rq) ==
    With(OpenPath(rq.path), LAMBDA open : handlerOpen(c, rq, open))

\* FileServer.handler (GET).
handler(c, rq) ==
    IF rq.path = Favicon THEN c
    ELSE With(OpenPath(rq.path), LAMBDA open : handlerOpen(c, rq, open))

\* upload: the target directory (the URL path without its last segment) and
\* the path the upload is saved at.
DropLast(parts) == SubSeq(parts, 1, Len(parts) - 1)
\* Mutant of Target: the last segment is not dropped.
Target_KeepLast(upath) == With(Split(upath), LAMBDA parts : Join(parts))

Target(upath) == With(Split(upath), LAMBDA parts : Join(DropLast(parts)))
SavePath(upath, filename) == Webroot \o Target(upath) \o <<Slash>> \o filename

\* upload: os.Create(savepath); the handle it returns is dropped.
uploadCreate(c, rq) ==
    With(SavePath(rq.path, rq.part.filename), LAMBDA savepath :
    With(OpenTrunc(c.disk, savepath, TRUE), LAMBDA r :
    With(Called(c, "create", savepath, r.err), LAMBDA c1 :
       IF r.err # "ok" THEN handle500(c1, rq)
       ELSE [c1 EXCEPT !.disk = r.disk,
                       !.handles = @ \cup {Handle(c, "create")}])))

\* Mutant of uploadRead: a failed read is not reported.
uploadRead_Silent(c, rq) ==
    [Called(c, "read", <<>>, IF rq.part.readErr THEN "EIO" ELSE "ok")
        EXCEPT !.fileBytes = SubSeq(rq.part.payload, 1, rq.part.readLen)]

\* upload: ioutil.ReadAll(file); the bytes read so far are kept on error.
uploadRead(c, rq) ==
    With([Called(c, "read", <<>>, IF rq.part.readErr THEN "EIO" ELSE "ok")
            EXCEPT !.fileBytes = SubSeq(rq.part.payload, 1, rq.part.readLen)],
         LAMBDA c1 : IF rq.part.readErr THEN handle500(c1, rq) ELSE c1)

\* ioutil.WriteFile(savepath, fileBytes, os.ModePerm), first half: the file
\* is opened with truncation.
uploadWriteOpen(c, rq) ==
    With(SavePath(rq.path, rq.part.filename), LAMBDA savepath :
    With(OpenTrunc(c.disk, savepath, FALSE), LAMBDA r :
       [Called(c, "write", savepath, r.err) EXCEPT
           !.disk = r.disk, !.wfile = [err |-> r.err, at |-> r.at]]))

\* ioutil.WriteFile, second half: fileBytes are written from offset 0 and the
\* file is closed; upload then reports an error of WriteFile.
uploadWriteData(c, rq) ==
    IF c.wfile.err # "ok" THEN handle500(c, rq)
    ELSE [c EXCEPT !.disk = PWrite(@, c.wfile.at, 0, c.fileBytes)]

\* upload: ioutil.WriteFile and its error check.
uploadWrite(c, rq) ==
    With(uploadWriteOpen(c, rq), LAMBDA c1 : uploadWriteData(c1, rq))

\* upload: the access-log entry "200" and the redirect to the target.
uploadRedirect(c, rq) ==
    With(Target(rq.path), LAMBDA target :
        [LogRequest(Called(c, "redirect", target, "ok"), rq, "200") EXCEPT
            !.resp = httpRedirect(@, rq.path, target, 303)])

\* FileServer.upload (POST). Without a file part, FormFile returns nil and
\* the deferred file.Close() panics: the outcome is marked panicked.
upload(c, rq) ==
    IF ~rq.part.hasFile THEN [c EXCEPT !.panicked = TRUE]
    ELSE With([c EXCEPT !.handles = @ \cup {Handle(c, "multipart")}], LAMBDA c0 :
         With(uploadCreate(c0, rq), LAMBDA c1 :
         With(uploadRead(c1, rq), LAMBDA c2 :
         With(uploadWrite(c2, rq), LAMBDA c3 :
         With(uploadRedirect(c3, rq), LAMBDA c4 :
            \* defer file.Close()
            [c4 EXCEPT !.handles = @ \ {Handle(c, "multipart")}])))))

\* Mutant of ServeHTTP: no deferred recover, a panic leaves ServeHTTP.
ServeHTTP_NoRecover(c, rq) ==
    With(IF rq.method = "GET" THEN handler(c, rq)
         ELSE IF rq.method = "POST" THEN upload(c, rq)
         ELSE c,
         LAMBDA c1 : [c1 EXCEPT !.dispatched = TRUE])

\* Mutant of ServeHTTP: every method other than POST is handled as a GET.
ServeHTTP_DefaultGet(c, rq) ==
    With(IF rq.method = "POST" THEN upload(c, rq) ELSE handler(c, rq),
         LAMBDA c1 :
       IF c1.panicked
       THEN [c1 EXCEPT !.resp = httpError(@, "panic", 500), !.panicked = FALSE,
                       !.dispatched = TRUE]
       ELSE [c1 EXCEPT !.dispatched = TRUE])

\* FileServer.ServeHTTP: dispatch by method; a panic of the handler is
\* recovered and answered with http.Error(..., 500).
ServeHTTP(c, rq) ==
    With(IF rq.method = "GET" THEN handler(c, rq)
         ELSE IF rq.method = "POST" THEN upload(c, rq)
         ELSE c,
         LAMBDA c1 :
       IF c1.panicked
       THEN [c1 EXCEPT !.resp = httpError(@, "panic", 500), !.panicked = FALSE,
                       !.dispatched = TRUE]
       ELSE [c1 EXCEPT !.dispatched = TRUE])

\* Mutant of basicAuth: the password is not compared.
basicAuth_UserOnly(c, rq, secret) ==
    With([c EXCEPT !.resp = SetChallenge(@)], LAMBDA c1 :
    IF rq.auth.ok = FALSE
    THEN [c1 EXCEPT !.resp = httpError(@, "Not authorized", 401)]
    ELSE IF rq.auth.username # "gopher"
    THEN [c1 EXCEPT !.resp = httpError(@, "Not authorized", 401)]
    ELSE ServeHTTP(c1, rq))

\* FileServer.basicAuth: the wrapper authRouter installs around ServeHTTP.
basicAuth(c, rq, secret) ==
    With([c EXCEPT !.resp = SetChallenge(@)], LAMBDA c1 :
    IF rq.auth.ok = FALSE
    THEN [c1 EXCEPT !.resp = httpError(@, "Not authorized", 401)]
    ELSE IF rq.auth.username # "gopher" \/ rq.auth.password # secret
    THEN [c1 EXCEPT !.resp = httpError(@, "Not authorized", 401)]
    ELSE ServeHTTP(c1, rq))

\* The handler registered for "/" by router or authRouter, and the end of
\* the request in net/http: a response with no header written gets 200; when
\* a panic left the handler the connection is closed with nothing more sent.
Route(c, rq, registered, secret) ==
    With(IF registered = "authRouter" THEN basicAuth(c, rq, secret)
         ELSE ServeHTTP(c, rq),
         LAMBDA c1 :
       IF c1.panicked THEN c1 ELSE [c1 EXCEPT !.resp = WriteHeader(@, 200)])

\* ------------------------------------------------------------------- state
VARIABLES
    cfg,        \* the FileServer fields SSL, SelfSigned, MyCert, MyKey, BasicAuth, Port
    mode,       \* "init", then the listener started or "exited"
    route,      \* the handler registered for "/": "none", "router", "authRouter"
    bootlog,    \* what Start logged
    disk,       \* the filesystem
    handles,    \* the file handles requests opened and have not closed
    nreq,       \* requests served so far
    pc,         \* "idle", or "done" while the last request's context is kept
    req,        \* the request being answered
    resp,       \* its response
    logged,     \* the access-log entries it appended
    calls,      \* the calls it made
    dispatched, \* whether it reached ServeHTTP
    ca,         \* the certificate collaborator: "unused", "ok" or "error"
    wk,         \* concurrent handling: each worker's position, request and context
    writeOrder  \* concurrent handling: the workers in the order their writes ended

vars == <<cfg, mode, route, bootlog, disk, handles, nreq, pc, req, resp, logged,
          calls, dispatched, ca, wk, writeOrder>>

seqvars == <<nreq, pc, req, resp, logged, calls, dispatched>>
concvars == <<wk, writeOrder>>
servevars == <<disk, handles, seqvars, concvars>>

Workers == 1..MaxWorkers

\* The context of a request that has not touched anything yet.
FreshContext(rid) ==
    [rid |-> rid, disk |-> InitDisk, handles |-> {}, logged |-> <<>>,
     resp |-> EmptyResponse, calls |-> <<>>, fileBytes |-> <<>>,
     wfile |-> [err |-> "none", at |-> <<>>],
     rfile |-> [err |-> "none", at |-> <<>>],
     panicked |-> FALSE, dispatched |-> FALSE]

IdleWorker(w) == [pc |-> "idle", rq |-> NoRequest, c |-> FreshContext(w)]

Configs ==
    [SSL : BOOLEAN, SelfSigned : BOOLEAN, MyCert : {"", "server.crt"},
     MyKey : {"", "server.key"}, BasicAuth : {"", "s3cret"}, Port : {8000, 8443}]

InitServing ==
    /\ disk = InitDisk
    /\ handles = {}
    /\ nreq = 0
    /\ pc = "idle"
    /\ req = NoRequest
    /\ resp = EmptyResponse
    /\ logged = <<>>
    /\ calls = <<>>
    /\ dispatched = FALSE
    /\ wk = [w \in Workers |-> IdleWorker(w)]
    /\ writeOrder = <<>>

InitBoot ==
    /\ mode = "init"
    /\ route = "none"
    /\ bootlog = <<>>
    /\ ca = "unused"

\* Mutant of StartOutcome: only the certificate path is required.
StartOutcome_CertOnly(f, caErr) ==
    With(IF f.BasicAuth # "" THEN "authRouter" ELSE "router", LAMBDA r :
       IF f.SSL THEN
          IF f.SelfSigned THEN
             IF caErr
             THEN [route |-> r, mode |-> "exited", ca |-> "error", log |-> <<"fatal-ca">>]
             ELSE [route |-> r, mode |-> "selfsigned", ca |-> "ok",
                   log |-> <<"serving-selfsigned", "fingerprints">>]
          ELSE IF f.MyCert = ""
          THEN [route |-> r, mode |-> "exited", ca |-> "unused",
                log |-> <<"fatal-need-cert">>]
          ELSE IF caErr
          THEN [route |-> r, mode |-> "exited", ca |-> "error", log |-> <<"fatal-ca">>]
          ELSE [route |-> r, mode |-> "provided", ca |-> "ok",
                log |-> <<"serving-provided", "fingerprints">>]
       ELSE [route |-> r, mode |-> "plain", ca |-> "unused",
             log |-> <<"serving-plain">>])

\* The outcome of FileServer.Start for configuration f: the route registered,
\* the log lines, and the listener started ("exited" after log.Fatal). caErr
\* tells whether the certificate collaborator (myca.Setup, myca.ParseAndSum)
\* returns an error when it is called.
StartOutcome(f, caErr) ==
    With(IF f.BasicAuth # "" THEN "authRouter" ELSE "router", LAMBDA r :
    With(IF f.BasicAuth # ""
         THEN (IF ~f.SSL THEN <<"warn-cleartext">> ELSE <<>>) \o <<"basic-auth">>
         ELSE <<>>, LAMBDA l0 :
    With(IF caErr THEN "error" ELSE "ok", LAMBDA called :
       IF f.SSL THEN
          IF f.SelfSigned THEN
             IF caErr
             THEN [route |-> r, mode |-> "exited", ca |-> called,
                   log |-> Append(l0, "fatal-ca")]
             ELSE [route |-> r, mode |-> "selfsigned", ca |-> called,
                   log |-> l0 \o <<"serving-selfsigned", "fingerprints">>]
          ELSE IF f.MyCert = "" \/ f.MyKey = ""
          THEN [route |-> r, mode |-> "exited", ca |-> "unused",
                log |-> Append(l0, "fatal-need-cert")]
          ELSE IF caErr
          THEN [route |-> r, mode |-> "exited", ca |-> called,
                log |-> Append(l0, "fatal-ca")]
          ELSE [route |-> r, mode |-> "provided", ca |-> called,
                log |-> l0 \o <<"serving-provided", "fingerprints">>]
       ELSE [route |-> r, mode |-> "plain", ca |-> "unused",
             log |-> Append(l0, "serving-plain")])))

\* FileServer.Start.
Start ==
    /\ mode = "init"
    /\ \E caErr \in BOOLEAN :
       \E o \in {StartOutcome(cfg, caErr)} :
         /\ mode' = o.mode
         /\ route' = o.route
         /\ bootlog' = o.log
         /\ ca' = o.ca
    /\ UNCHANGED <<cfg, servevars>>

Listening == mode \in {"plain", "selfsigned", "provided"}

NewContext ==
    [FreshContext(nreq + 1) EXCEPT !.disk = disk, !.handles = handles]

\* One request is received and answered.
Serve ==
    /\ Listening
    /\ pc = "idle"
    /\ nreq < MaxRequests
    /\ \E rq \in Requests :
       \E c0 \in {[NewContext EXCEPT !.resp.gone = rq.writeErr]} :
       \E c \in {Route(c0, rq, route, cfg.BasicAuth)} :
         /\ req' = rq
         /\ disk' = c.disk
         /\ handles' = c.handles
         /\ resp' = c.resp
         /\ logged' = c.logged
         /\ calls' = c.calls
         /\ dispatched' = c.dispatched
    /\ nreq' = nreq + 1
    /\ pc' = "done"
    /\ UNCHANGED <<cfg, mode, route, bootlog, ca, concvars>>

\* The request is over: its context is dropped.
Release ==
    /\ pc = "done"
    /\ pc' = "idle"
    /\ req' = NoRequest
    /\ resp' = EmptyResponse
    /\ logged' = <<>>
    /\ calls' = <<>>
    /\ dispatched' = FALSE
    /\ UNCHANGED <<cfg, mode, route, bootlog, ca, disk, handles, nreq, concvars>>

\* Serving: a plaintext configuration with or without the shared secret.
Init ==
    /\ cfg \in {f \in Configs : ~f.SSL /\ ~f.SelfSigned /\ f.MyCert = ""
                                /\ f.MyKey = "" /\ f.Port = 8000}
    /\ InitBoot
    /\ InitServing

Next == Start \/ Serve \/ Release

Spec == Init /\ [][Next]_vars

\* ------------------------------------------------- concurrent handling
\* net/http runs each request on its own goroutine: the steps of the
\* handlers of the requests in flight interleave, one system call at a time,
\* on the one disk. A worker keeps the context of its request; the disk and
\* the open handles are the shared ones.
ConcUploads ==
    { [method |-> "POST", path |-> p, auth |-> NoAuth, readdirErr |-> FALSE,
       writeErr |-> FALSE, tiesReversed |-> FALSE,
       part |-> [hasFile |-> TRUE, filename |-> NameA, payload |-> b,
                 readErr |-> FALSE, readLen |-> Len(b)]] :
        p \in {<<Slash>>, <<Slash>> \o NameD \o <<Slash>>}, b \in {<<1>>, <<2, 2>>} }

\* The GET of the file a that runs beside the uploads.
ConcGets ==
    { [method |-> "GET", path |-> <<Slash>> \o NameA, auth |-> NoAuth,
       part |-> NoPart, readdirErr |-> FALSE, writeErr |-> FALSE,
       tiesReversed |-> FALSE] }

Shared(c) == [c EXCEPT !.disk = disk, !.handles = handles]
Private(c) == [c EXCEPT !.disk = InitDisk, !.handles = {}]

\* Worker w makes one step of its handler: from position from to position to,
\* with the context out as the result.
Step(w, to, out) ==
    /\ disk' = out.disk
    /\ handles' = out.handles
    /\ wk' = [wk EXCEPT ![w].pc = to, ![w].c = Private(out)]
    /\ UNCHANGED <<cfg, mode, route, bootlog, ca, seqvars>>

\* ServeHTTP dispatches a POST to upload; FormFile opens the file part.
CReceive(w) ==
    /\ Listening
    /\ wk[w].pc = "idle"
    /\ \E rq \in ConcUploads :
       \E c \in {Shared(FreshContext(w))} :
         /\ disk' = disk
         /\ handles' = handles \cup {Handle(c, "multipart")}
         /\ wk' = [wk EXCEPT ![w] = [pc |-> "create", rq |-> rq,
                                     c |-> [Private(c) EXCEPT !.dispatched = TRUE]]]
    /\ UNCHANGED <<cfg, mode, route, bootlog, ca, seqvars, writeOrder>>

\* os.Create(savepath).
CCreate(w) ==
    /\ wk[w].pc = "create"
    /\ \E c \in {Shared(wk[w].c)} :
       \E out \in {uploadCreate(c, wk[w].rq)} : Step(w, "read", out)
    /\ UNCHANGED writeOrder

\* ioutil.ReadAll(file).
CRead(w) ==
    /\ wk[w].pc = "read"
    /\ \E c \in {Shared(wk[w].c)} :
       \E out \in {uploadRead(c, wk[w].rq)} : Step(w, "open", out)
    /\ UNCHANGED writeOrder

\* ioutil.WriteFile: the open with truncation.
CWriteOpen(w) ==
    /\ wk[w].pc = "open"
    /\ \E c \in {Shared(wk[w].c)} :
       \E out \in {uploadWriteOpen(c, wk[w].rq)} : Step(w, "write", out)
    /\ UNCHANGED writeOrder

\* ioutil.WriteFile: the write and the close.
CWriteData(w) ==
    /\ wk[w].pc = "write"
    /\ \E c \in {Shared(wk[w].c)} :
       \E out \in {uploadWriteData(c, wk[w].rq)} : Step(w, "redirect", out)
    /\ writeOrder' = Append(writeOrder, w)

\* The entry "200", the redirect, the deferred file.Close() and the return.
CRedirect(w) ==
    /\ wk[w].pc = "redirect"
    /\ \E c \in {Shared(wk[w].c)} :
       \E c4 \in {uploadRedirect(c, wk[w].rq)} :
       \E out \in {[c4 EXCEPT !.handles = @ \ {Handle(c, "multipart")},
                              !.resp = WriteHeader(@, 200)]} :
          Step(w, "done", out)
    /\ UNCHANGED writeOrder

\* ServeHTTP dispatches a GET to handler: os.Open and, when it succeeded, the
\* entry "200"; a failed open is answered at once.
CGetOpen(w) ==
    /\ Listening
    /\ wk[w].pc = "idle"
    /\ \E rq \in ConcGets :
       \E c \in {[Shared(FreshContext(w)) EXCEPT !.dispatched = TRUE]} :
       \E open \in {OpenPath(rq.path)} :
       \E o \in {osOpen(disk, open)} :
       \E out \in {IF o.err = "ok"
                   THEN [handlerLog(Called(c, "open", open, o.err), rq)
                            EXCEPT !.rfile = o]
                   ELSE [handlerOpen(c, rq, open) EXCEPT !.resp = WriteHeader(@, 200)]} :
         /\ disk' = out.disk
         /\ handles' = out.handles
         /\ wk' = [wk EXCEPT ![w] = [pc |-> IF o.err = "ok" THEN "copy" ELSE "done",
                                     rq |-> rq, c |-> Private(out)]]
    /\ UNCHANGED <<cfg, mode, route, bootlog, ca, seqvars, writeOrder>>

\* sendFile: io.Copy reads the open file and writes it to the response; the
\* deferred file.Close() and the return.
CGetCopy(w) ==
    /\ wk[w].pc = "copy"
    /\ \E c \in {Shared(wk[w].c)} :
       \E c4 \in {handlerBody(c, wk[w].rq, c.rfile.at)} :
       \E out \in {[c4 EXCEPT !.resp = WriteHeader(@, 200)]} :
          Step(w, "done", out)
    /\ UNCHANGED writeOrder

InitConc ==
    /\ cfg \in {f \in Configs : ~f.SSL /\ ~f.SelfSigned /\ f.MyCert = ""
                                /\ f.MyKey = "" /\ f.Port = 8000 /\ f.BasicAuth = ""}
    /\ InitBoot
    /\ InitServing

NextConc ==
    \/ Start
    \/ \E w \in Workers :
         CReceive(w) \/ CCreate(w) \/ CRead(w) \/ CWriteOpen(w) \/ CWriteData(w)
         \/ CRedirect(w) \/ CGetOpen(w) \/ CGetCopy(w)

SpecConc == InitConc /\ [][NextConc]_vars

\* Bootstrap: Start under every configuration.
InitStart ==
    /\ cfg \in Configs
    /\ InitBoot
    /\ InitServing

NextStart == Start

SpecStart == InitStart /\ [][NextStart]_vars

\* ------------------------------------------------------------------ claims
Statuses(log) == [i \in DOMAIN log |-> log[i].status]
Operations(cs) == [i \in DOMAIN cs |-> cs[i].op]
Count(seq, v) == Cardinality({i \in DOMAIN seq : seq[i] = v})
Failed(cs) == Cardinality({i \in DOMAIN cs : cs[i].err # "ok"})

Done(method) == pc = "done" /\ dispatched /\ req.method = method

\* C1: with a shared secret configured, a request reaches ServeHTTP exactly
\* when it carries the user "gopher" and the secret as password; any other
\* request gets status 401 with the WWW-Authenticate challenge, makes no
\* filesystem call, appends nothing to the access log and leaves the disk and
\* the open handles as they were.
AuthGate ==
    [][ (pc = "idle" /\ pc' = "done" /\ cfg.BasicAuth # "") =>
          /\ dispatched' <=> ( /\ req'.auth.ok
                               /\ req'.auth.username = "gopher"
                               /\ req'.auth.password = cfg.BasicAuth )
          /\ ~dispatched' => /\ resp'.status = 401
                             /\ resp'.challenge
                             /\ calls' = <<>>
                             /\ logged' = <<>>
                             /\ disk' = disk
                             /\ handles' = handles ]_vars

\* C1 witness: an upload with the right user and a wrong password was refused.
AuthRefusedUpload ==
    /\ pc = "done" /\ cfg.BasicAuth = "s3cret"
    /\ req.method = "POST" /\ req.part.hasFile
    /\ req.auth.ok /\ req.auth.username = "gopher" /\ req.auth.password = "guess"
    /\ resp.status = 401 /\ ~dispatched

\* C2: every path a GET request opens lies within the served root, whatever
\* '.', '..' and empty segments its URL path holds; a GET makes no other
\* filesystem call.
GetConfined ==
    Done("GET") =>
        \A i \in DOMAIN calls : calls[i].op = "open" /\ Confined(calls[i].path)

\* C2 witness: GET /../a opened /r/a.
GetTraversal ==
    /\ Done("GET")
    /\ req.path = <<Slash, Dot, Dot, Slash>> \o NameA
    /\ calls = <<[op |-> "open", path |-> Webroot \o <<Slash>> \o NameA, err |-> "ok"]>>

\* C3 (as claimed): the path an upload creates and writes lies within the
\* served root, and no upload creates or changes a file outside the root.
UploadConfined ==
    Done("POST") =>
        /\ \A i \in DOMAIN calls :
             calls[i].op \in {"create", "write"} => Confined(calls[i].path)
        /\ \A loc \in DOMAIN disk :
             ~IsPrefix(RootLoc, loc) => loc \in DOMAIN InitDisk /\ disk[loc] = InitDisk[loc]

\* C4 (as claimed): when an error page is rendered the status on the wire is
\* the intended one, 404 with the not-found page and 500 with the
\* permission-denied page.
ErrorPageStatus ==
    pc = "done" =>
        /\ Count(Parts(resp.body), "page404") > 0 => resp.status = 404
        /\ Count(Parts(resp.body), "page500") > 0 => resp.status = 500

\* C5 (as claimed): for a GET other than /favicon.ico the outcome of opening
\* the resolved path fixes the response: no such path, the not-found page and
\* one entry "404"; an unreadable path, the server-error page and one entry
\* "500"; a successful open, one entry "200" and the listing of a directory
\* or the bytes of a file.
GetOutcomeClasses ==
    (Done("GET") /\ req.path # Favicon) =>
        LET r == Resolve(disk, OpenPath(req.path)) IN
        IF r.err # "ok"
        THEN Parts(resp.body) = <<"page404">> /\ Statuses(logged) = <<"404">>
        ELSE IF ~disk[r.at].r
        THEN Parts(resp.body) = <<"page500">> /\ Statuses(logged) = <<"500">>
        ELSE /\ Statuses(logged) = <<"200">>
             /\ IF disk[r.at].kind = "dir"
                THEN Parts(resp.body) = <<"listing">>
                ELSE IF disk[r.at].data = <<>> THEN resp.body = <<>>
                ELSE /\ Parts(resp.body) = <<"file">>
                     /\ resp.body[1].data = disk[r.at].data

\* The URL path p without its last '/'-separated segment, '/' included.
RECURSIVE StripLastSegment(_)
StripLastSegment(p) ==
    IF Len(p) = 0 THEN p
    ELSE IF p[Len(p)] = Slash THEN SubSeq(p, 1, Len(p) - 1)
    ELSE StripLastSegment(SubSeq(p, 1, Len(p) - 1))

\* An upload whose create, read and write all succeeded.
UploadSucceeded ==
    /\ Done("POST") /\ req.part.hasFile
    /\ Operations(calls) = <<"create", "read", "write", "redirect">>
    /\ Failed(calls) = 0

\* The file the successful upload was to store, and what the access log got.
UploadStored(dir) ==
    LET dest == Lexical(Webroot \o dir \o <<Slash>> \o req.part.filename) IN
    /\ dest \in DOMAIN disk
    /\ disk[dest].kind = "file"
    /\ disk[dest].data = req.part.payload
    /\ resp.status = 303
    /\ Statuses(logged) = <<"200">>

\* C6 (as claimed): after a successful upload to URL path P the file at
\* root + D + '/' + F holds the payload, the response is a 303 whose Location
\* is D, and one entry "200" is logged (D = P without its last segment).
UploadStoredRedirectD ==
    UploadSucceeded =>
        LET dir == StripLastSegment(req.path) IN
        UploadStored(dir) /\ resp.location = dir

\* C6 (amended): as claimed, except that Location is D in clean form: "/"
\* when D is empty, otherwise D with '.', '..' and repeated '/' resolved and
\* a trailing '/' kept.
UploadStoredRedirectClean ==
    UploadSucceeded =>
        LET dir == StripLastSegment(req.path)
            cl == Clean(dir)
        IN /\ UploadStored(dir)
           /\ resp.location =
                IF dir = <<>> THEN <<Slash>>
                ELSE IF HasSlashSuffix(dir) /\ ~HasSlashSuffix(cl) THEN Append(cl, Slash)
                ELSE cl

\* C6 witness: the upload of file a with payload 1,2 to /d/ is stored at
\* /r/d/a and answered with a redirect to /d.
UploadToSubdir ==
    /\ UploadSucceeded
    /\ req.path = <<Slash>> \o NameD \o <<Slash>>
    /\ req.part.filename = NameA
    /\ disk[<<NameR, NameD, NameA>>].data = <<1, 2>>
    /\ resp.location = <<Slash>> \o NameD

\* Two uploads that ran concurrently to the same destination, each with
\* create, read and write succeeding, have both completed.
BothUploaded(v, w) ==
    /\ v # w
    /\ wk[v].rq.method = "POST" /\ wk[w].rq.method = "POST"
    /\ wk[v].pc = "done" /\ wk[w].pc = "done"
    /\ Failed(wk[v].c.calls) = 0 /\ Failed(wk[w].c.calls) = 0
    /\ wk[v].c.calls[1].path = wk[w].c.calls[1].path

\* C7 (as claimed): when two uploads to the same destination interleave, the
\* file holds, once both have completed, exactly the payload of the upload
\* whose write finished last.
LastWriterWins ==
    \A v, w \in Workers :
        (BothUploaded(v, w) /\ \A u \in Workers : wk[u].pc \in {"idle", "done"}) =>
            LET dest == Lexical(wk[v].c.calls[1].path)
                last == writeOrder[Len(writeOrder)]
            IN disk[dest].data = wk[last].rq.part.payload

\* C8: Start selects the listening mode from the configuration: plaintext
\* without SSL; self-signed TLS with SSL and SelfSigned; provided-certificate
\* TLS with SSL, not SelfSigned and both MyCert and MyKey; and when MyCert or
\* MyKey is missing, or the certificate collaborator fails, the process exits
\* after a fatal log line and no listener is started.
ListeningMode ==
    mode # "init" =>
        /\ ~cfg.SSL => mode = "plain"
        /\ (cfg.SSL /\ cfg.SelfSigned) =>
              mode = IF ca = "error" THEN "exited" ELSE "selfsigned"
        /\ (cfg.SSL /\ ~cfg.SelfSigned /\ cfg.MyCert # "" /\ cfg.MyKey # "") =>
              mode = IF ca = "error" THEN "exited" ELSE "provided"
        /\ (cfg.SSL /\ ~cfg.SelfSigned /\ (cfg.MyCert = "" \/ cfg.MyKey = "")) =>
              mode = "exited"
        /\ ca = "error" => mode = "exited"
        /\ mode = "exited" =>
              /\ bootlog[Len(bootlog)] \in {"fatal-ca", "fatal-need-cert"}
              /\ \A i \in DOMAIN bootlog :
                   bootlog[i] \notin {"serving-plain", "serving-selfsigned", "serving-provided"}
        /\ mode # "exited" =>
              \A i \in DOMAIN bootlog : bootlog[i] \notin {"fatal-ca", "fatal-need-cert"}

\* C8 witness: SSL without SelfSigned, a certificate but no key: Start exited.
StartWithoutKey ==
    /\ mode = "exited"
    /\ cfg.SSL /\ ~cfg.SelfSigned /\ cfg.MyCert # "" /\ cfg.MyKey = ""

\* C9 (as claimed): every file handle a request opened is closed by the time
\* its handling has finished.
HandlesReleased == handles = {}

\* C10: an upload makes its four steps in order whatever fails (create, read,
\* write, then the entry "200" and the redirect); each of create, read and
\* write that fails adds one entry "500" and one server-error page, so an
\* upload gets between zero and three of them.
UploadContinues ==
    (Done("POST") /\ req.part.hasFile) =>
        /\ Operations(calls) = <<"create", "read", "write", "redirect">>
        /\ calls[2].err = (IF req.part.readErr THEN "EIO" ELSE "ok")
        /\ Count(Statuses(logged), "500") = Failed(calls)
        /\ Count(Parts(resp.body), "page500") = Failed(calls)
        /\ Failed(calls) \in 0..3
        /\ Statuses(logged)[Len(logged)] = "200"
        /\ Count(Statuses(logged), "200") = 1

\* C10 witness: an upload whose create, read and write all failed.
ThreeErrorPages ==
    /\ Done("POST") /\ req.part.hasFile
    /\ Failed(calls) = 3
    /\ Count(Parts(resp.body), "page500") = 3

\* C11 (as claimed): an upload gets the 303 redirect and an entry "200"
\* exactly when create, read and write all succeeded; when one of them failed
\* the client gets the server-error page, no 303, and no entry "200" is
\* written.
UploadReportedOnlyOnSuccess ==
    (Done("POST") /\ req.part.hasFile) =>
        /\ (resp.status = 303 /\ Count(Statuses(logged), "200") = 1)
              <=> Failed(calls) = 0
        /\ Failed(calls) > 0 =>
              /\ Count(Parts(resp.body), "page500") > 0
              /\ resp.status # 303
              /\ Count(Statuses(logged), "200") = 0

\* C12: a POST without a file part panics in upload; the panic is recovered
\* in ServeHTTP and answered with status 500 and the panic's text; no
\* filesystem call is made, the disk and the open handles stay as they were,
\* no entry "200" is written, and the server keeps listening.
FaultRecovered ==
    [][ ( /\ pc = "idle" /\ pc' = "done" /\ dispatched'
          /\ req'.method = "POST" /\ ~req'.part.hasFile ) =>
            /\ resp'.status = 500
            /\ Parts(resp'.body) = <<"panic">>
            /\ calls' = <<>>
            /\ disk' = disk
            /\ handles' = handles
            /\ Count(Statuses(logged'), "200") = 0
            /\ mode' = mode /\ Listening' ]_vars

\* C12 witness: the second request, a POST to /d/ without a file part, was
\* answered with status 500.
PanicAnswered ==
    /\ Done("POST") /\ ~req.part.hasFile /\ nreq = 2
    /\ req.path = <<Slash>> \o NameD \o <<Slash>>
    /\ resp.status = 500
    /\ Parts(resp.body) = <<"panic">>

\* C13: when a GET opened its path, the first access-log entry is "200" and
\* it was written before any Write on the response, whether or not the
\* writes that follow succeed.
LoggedBeforeBody ==
    (Done("GET") /\ calls # <<>> /\ calls[1].err = "ok") =>
        /\ logged # <<>>
        /\ logged[1].status = "200"
        /\ logged[1].sent = 0

\* C13 witness: GET /a on a broken connection: the entry "200" is written,
\* the one Write fails and the client receives nothing.
LoggedThoughWriteFailed ==
    /\ Done("GET") /\ req.writeErr
    /\ req.path = <<Slash>> \o NameA
    /\ Statuses(logged) = <<"200">>
    /\ resp.writes = 1
    /\ resp.body = <<>>

\* The display names of a listing, in the order rendered.
Names(items) == [i \in DOMAIN items |-> items[i].Name]

\* C14 (as claimed): a listing has one entry per child of the directory, the
\* display name being the base name with '/' appended for a directory; the
\* entries ascend by lower-cased display name, and entries whose lower-cased
\* names are equal keep the order of the enumeration.
ListingStableSorted ==
    (Done("GET") /\ Parts(resp.body) = <<"listing">>) =>
        LET names == Names(resp.body[1].data)
            loc == Lexical(OpenPath(req.path))
            fis == Readdir(disk, loc)
            enum == [k \in DOMAIN fis |-> DisplayName(disk, fis[k])]
            At(n) == CHOOSE k \in DOMAIN enum : enum[k] = n
        IN /\ Len(names) = Cardinality(Children(disk, loc))
           /\ {names[i] : i \in DOMAIN names}
                = {DisplayName(disk, q) : q \in Children(disk, loc)}
           /\ \A i, j \in DOMAIN names :
                i < j =>
                  /\ ~StrLess(ToLower(names[j]), ToLower(names[i]))
                  /\ ToLower(names[i]) = ToLower(names[j]) => At(names[i]) < At(names[j])

\* C15: a GET of /favicon.ico gets an empty body with status 200; no path is
\* opened and no access-log entry is written.
FaviconNoOp ==
    (Done("GET") /\ req.path = Favicon) =>
        /\ resp.status = 200
        /\ resp.body = <<>>
        /\ resp.writes = 0
        /\ calls = <<>>
        /\ logged = <<>>
        /\ handles \subseteq {h \in handles : h.rid # nreq}

\* C15 witness: a GET of /favicon.ico answered with an empty 200 while a file
\* favicon.ico lies in the served root.
FaviconPresentIgnored ==
    /\ Done("GET") /\ req.path = Favicon
    /\ <<NameR, FaviconName>> \in DOMAIN disk
    /\ resp.status = 200
    /\ resp.body = <<>>

\* C16 (as claimed): a GET writes at most one access-log entry; once the
\* entry "200" is written, no entry "404" and no not-found page follow; a
\* directory whose enumeration fails is reported as not found only.
OneLogEntryPerGet ==
    Done("GET") =>
        /\ Len(logged) <= 1
        /\ Count(Statuses(logged), "200") > 0 =>
              /\ Count(Statuses(logged), "404") = 0
              /\ Count(Parts(resp.body), "page404") = 0
        /\ (req.readdirErr /\ Count(Parts(resp.body), "page404") > 0) =>
              Statuses(logged) = <<"404">>

\* C17: a request whose method is not POST leaves the disk as it was; a
\* request whose method is neither GET nor POST that reaches ServeHTTP makes
\* no filesystem call, opens no handle, writes no access-log entry and gets
\* an empty response with status 200.
OnlyPostWrites ==
    [][ (pc = "idle" /\ pc' = "done") =>
          /\ req'.method # "POST" => disk' = disk
          /\ (req'.method \notin {"GET", "POST"} /\ dispatched') =>
                /\ calls' = <<>>
                /\ logged' = <<>>
                /\ handles' = handles
                /\ resp'.body = <<>>
                /\ resp'.writes = 0
                /\ resp'.status = 200 ]_vars

\* C17 witness: a PUT to /a after an upload got an empty 200.
PutAfterUpload ==
    /\ Done("PUT") /\ req.path = <<Slash>> \o NameA
    /\ disk # InitDisk
    /\ resp.status = 200
    /\ resp.body = <<>>

\* C18 (as claimed): a GET of a regular file that ran beside uploads
\* delivers the file's complete content from before the uploads or the
\* complete payload of one of them, never an empty, cut or mixed body.
GetAtomic ==
    \A g \in Workers :
        ( /\ wk[g].pc = "done" /\ wk[g].rq.method = "GET"
          /\ wk[g].c.calls[1].err = "ok" ) =>
            LET X == Lexical(wk[g].c.calls[1].path)
                complete ==
                    {InitDisk[X].data} \cup
                    { wk[u].rq.part.payload :
                        u \in {v \in Workers : wk[v].rq.method = "POST"} }
            IN /\ Parts(wk[g].c.resp.body) = <<"file">>
               /\ wk[g].c.resp.body[1].data \in complete
====
